---- MODULE Spec2Model ----
(***************************************************************************)
(* BFormSpinbutton (src/src/components/form-spinbutton/form-spinbutton.js) *)
(* as a state machine: the stepping arithmetic, the delay/interval repeat  *)
(* timers and the keyboard/pointer handlers.                               *)
(*                                                                         *)
(* Numbers are fixed-point integers counting units of 1/Scale, so 0.25 is  *)
(* 25 and 1 is 100.  The configurations used keep every intermediate       *)
(* result of the code's floating-point arithmetic exactly representable    *)
(* (multiples of 0.25 and small integers), so the exact arithmetic below   *)
(* is the arithmetic the code performs.  A JavaScript value that is a      *)
(* number, null or NaN is a record [k, n].                                 *)
(***************************************************************************)
EXTENDS Integers, FiniteSets, Sequences, TLC

Scale == 10 * 10

Num(n) == [k |-> "num", n |-> n]
Null == [k |-> "null", n |-> 0]
NaN == [k |-> "nan", n |-> 0]

isNull(v) == v.k = "null"
isNaN(v) == v.k = "nan"

\* --- Constants (lines 19-30), in units of 1/Scale where they are numbers of
\* --- the value range
DEFAULT_MIN == 1 * Scale
DEFAULT_MAX == 100 * Scale
DEFAULT_STEP == 1 * Scale
DEFAULT_REPEAT_THRESHOLD == 10
DEFAULT_REPEAT_MULTIPLIER == 4

\* --- Bounds of the model
\* The interval timer is followed for at most MaxCount ticks of one repeat cycle.
MaxCount == 4
\* Multipliers passed to the public stepUp(m) / stepDown(m) are 1..MaxMult.
MaxMult == 2

VARIABLES
  props,            \* min, max, step, wrap, repeatThreshold, repeatStepMultiplier
  disabled,         \* prop `disabled`
  readonly,         \* prop `readonly`
  localValue,       \* data: Num(n), Null or NaN
  autoDelayTimer,   \* $_autoDelayTimer: "pending" while its timeout is pending, else "none"
  autoRepeatTimer,  \* $_autoRepeatTimer: "pending" while its interval is running, else "none"
  keyIsDown,        \* $_keyIsDown
  mouseup,          \* whether onMouseup is registered on document.body
  stepper,          \* the stepper captured by the pending timer callbacks
  count,            \* `count` of the running interval callback
  emitted,          \* the notifications ($emit) of the event handled last
  heldKey,          \* the key physically held, or "none"
  pointer,          \* where the pointer is pressed: "up", "inc", "dec", "page"
  last,             \* the event handled last
  gesture,          \* the keyboard gesture in progress, with its 'change' count
  hasFocus,         \* data: hasFocus
  orphans,          \* pending timers whose handle was overwritten while they were pending
  error,            \* the error the hook or handler run last raised, or "none"
  lifecycle,        \* "active", "deactivated" (kept alive, detached) or "destroyed"
  secondKey         \* a second key physically held while heldKey is, or "none"

vars == <<props, disabled, readonly, localValue, autoDelayTimer, autoRepeatTimer,
          keyIsDown, mouseup, stepper, count, emitted, heldKey, pointer, last, gesture,
          hasFocus, orphans, error, lifecycle, secondKey>>

\* --- Helper functions (lines 34-45).  A prop holds what toFloat / toInteger
\* --- make of the raw value: a number, or NaN for anything not numeric.
defaultNumber(value, defaultValue) ==
  IF isNaN(value) THEN defaultValue ELSE value.n

Abs(n) == IF n < 0 THEN -n ELSE n

defaultInteger(value, defaultValue) ==
  IF isNaN(value) THEN Abs(defaultValue) ELSE value.n

\* --- Computed properties (lines 157-185)
computedStep == defaultNumber(props.step, DEFAULT_STEP)
computedMin == defaultNumber(props.min, DEFAULT_MIN)
computedMax == defaultNumber(props.max, DEFAULT_MAX)

\* `x || 1`: 0 is falsy (NaN cannot occur after defaultInteger)
computedThreshold ==
  LET x == defaultInteger(props.repeatThreshold, DEFAULT_REPEAT_THRESHOLD)
  IN IF x = 0 THEN 1 ELSE x

computedStepMultiplier ==
  LET x == defaultInteger(props.repeatStepMultiplier, DEFAULT_REPEAT_MULTIPLIER)
  IN IF x = 0 THEN 1 ELSE x

\* Math.floor(step) === step ? 0 : number of decimals of step.toString(),
\* for steps of at most two decimals
computedPrecision ==
  IF computedStep % Scale = 0 THEN 0
  ELSE IF computedStep % 10 = 0 THEN 1 ELSE 2

Pow10(p) == IF p = 0 THEN 1 ELSE IF p = 1 THEN 10 ELSE 100

computedMultiplier == Pow10(computedPrecision)

\* Math.round(n / d) for d # 0: the nearest integer, a half rounded up
MathRound(n, d) ==
  IF d > 0 THEN (2 * n + d) \div (2 * d)
  ELSE (2 * (-n) + (-d)) \div (2 * (-d))

\* --- Key codes (line 16); OTHERKEY stands for every key the control does not handle
UP == "UP"
DOWN == "DOWN"
HOME == "HOME"
END == "END"
PAGEUP == "PAGEUP"
PAGEDOWN == "PAGEDOWN"
OTHERKEY == "OTHERKEY"
HandledKeys == {UP, DOWN, HOME, END, PAGEUP, PAGEDOWN}

\* --- The component instance as the handlers see it.  Every handler below maps
\* --- an instance to the instance it leaves behind.
this ==
  [disabled |-> disabled, readonly |-> readonly, localValue |-> localValue,
   autoDelayTimer |-> autoDelayTimer, autoRepeatTimer |-> autoRepeatTimer,
   keyIsDown |-> keyIsDown, mouseup |-> mouseup, stepper |-> stepper,
   count |-> count, emitted |-> << >>,
   hasFocus |-> hasFocus, orphans |-> orphans, error |-> "none"]

\* --- Methods (lines 264-398)
emitChange(t) == [t EXCEPT !.emitted = Append(@, "change")]

\* lines 278-280: the value snapped to the grid of `step` anchored at min and
\* advanced by one `step`, then rounded to the precision; step # 0
steppedValue(n, step) ==
  LET min == computedMin
      multiplier == computedMultiplier
      value == MathRound(n - min, step) * step + min + step
  IN MathRound(value * multiplier, Scale) * (Scale \div multiplier)

\* stepValue storing the stepped value without the check against max and min
stepValue_noClamp(t, direction) ==
  IF ~t.disabled /\ ~isNull(t.localValue) THEN
    LET step == computedStep * direction
    IN IF isNaN(t.localValue) \/ step = 0
       THEN [t EXCEPT !.localValue = NaN]
       ELSE [t EXCEPT !.localValue = Num(steppedValue(t.localValue.n, step))]
  ELSE t

\* stepValue taking a value that lands on max (on min) as beyond it
stepValue_boundInclusive(t, direction) ==
  IF ~t.disabled /\ ~isNull(t.localValue) THEN
    LET step == computedStep * direction
        min == computedMin
        max == computedMax
        wrap == props.wrap
    IN IF isNaN(t.localValue) \/ step = 0
       THEN [t EXCEPT !.localValue = NaN]
       ELSE LET value == steppedValue(t.localValue.n, step)
            IN [t EXCEPT !.localValue =
                  Num(IF value >= max THEN (IF wrap THEN min ELSE max)
                      ELSE IF value <= min THEN (IF wrap THEN max ELSE min)
                      ELSE value)]
  ELSE t

stepValue(t, direction) ==
  IF ~t.disabled /\ ~isNull(t.localValue) THEN
    LET step == computedStep * direction
        min == computedMin
        max == computedMax
        wrap == props.wrap
    IN IF isNaN(t.localValue) \/ step = 0
       THEN \* (value - min) / 0 is an infinity or NaN, and times 0 it is NaN; NaN
            \* stays NaN through Math.round, compares false with max and with
            \* min, and is stored
            [t EXCEPT !.localValue = NaN]
       ELSE LET value == steppedValue(t.localValue.n, step)
            IN [t EXCEPT !.localValue =
                  Num(IF value > max THEN (IF wrap THEN min ELSE max)
                      ELSE IF value < min THEN (IF wrap THEN max ELSE min)
                      ELSE value)]
  ELSE t

stepUp(t, multiplier) ==
  IF isNull(t.localValue)
  THEN [t EXCEPT !.localValue = Num(computedMin)]
  ELSE stepValue(t, 1 * multiplier)

\* stepDown seeding an empty value with min whatever `wrap` is
stepDown_seedMin(t, multiplier) ==
  IF isNull(t.localValue)
  THEN [t EXCEPT !.localValue = Num(computedMin)]
  ELSE stepValue(t, (-1) * multiplier)

stepDown(t, multiplier) ==
  IF isNull(t.localValue)
  THEN [t EXCEPT !.localValue = Num(IF props.wrap THEN computedMax ELSE computedMin)]
  ELSE stepValue(t, (-1) * multiplier)

\* resetTimers clearing the timeout only
resetTimers_delayOnly(t) ==
  IF t.autoRepeatTimer = "pending" THEN [t EXCEPT !.autoDelayTimer = "none"]
  ELSE [t EXCEPT !.autoDelayTimer = "none", !.stepper = "none", !.count = 0]

\* clearTimeout / clearInterval: nothing stays pending, and the callbacks with
\* what they captured (stepper, count) are gone
resetTimers(t) ==
  [t EXCEPT !.autoDelayTimer = "none", !.autoRepeatTimer = "none",
            !.stepper = "none", !.count = 0]

\* eventOnOff on document.body: adding a registered listener or removing an
\* unregistered one changes nothing
setMouseup(t, on) == [t EXCEPT !.mouseup = on]

CallStepper(fn, t, multiplier) ==
  IF fn = "stepUp" THEN stepUp(t, multiplier) ELSE stepDown(t, multiplier)

\* handleStepRepeat arming the delay without resetting the timers first
handleStepRepeat_noReset(t, fn) ==
  IF ~t.disabled /\ ~t.readonly THEN
    LET t2 == setMouseup(t, TRUE)
        t3 == CallStepper(fn, t2, 1)
    IN [t3 EXCEPT !.orphans = @ + (IF t3.autoDelayTimer = "pending" THEN 1 ELSE 0),
                  !.autoDelayTimer = "pending", !.stepper = fn]
  ELSE t

handleStepRepeat(t, fn) ==
  IF ~t.disabled /\ ~t.readonly THEN
    LET t1 == resetTimers(t)
        t2 == setMouseup(t1, TRUE)
        t3 == CallStepper(fn, t2, 1)
    IN \* line 365 overwrites $_autoDelayTimer: a timeout still pending under
       \* the old handle could not be cleared any more
       [t3 EXCEPT !.orphans = @ + (IF t3.autoDelayTimer = "pending" THEN 1 ELSE 0),
                  !.autoDelayTimer = "pending", !.stepper = fn]
  ELSE t

\* the setTimeout callback (lines 365-377): it has fired, and starts the interval
delayCallback(t) ==
  \* line 369 overwrites $_autoRepeatTimer: an interval still running under the
  \* old handle could not be cleared any more
  [t EXCEPT !.orphans = @ + (IF t.autoRepeatTimer = "pending" THEN 1 ELSE 0),
            !.autoDelayTimer = "none", !.autoRepeatTimer = "pending", !.count = 0]

\* the setInterval callback taking the multiplier one tick late
repeatCallback_lateThreshold(t) ==
  LET threshold == computedThreshold
      multiplier == computedStepMultiplier
      t1 == CallStepper(t.stepper, t, IF t.count <= threshold THEN 1 ELSE multiplier)
  IN [t1 EXCEPT !.count = @ + 1]

\* the setInterval callback (lines 369-376)
repeatCallback(t) ==
  LET threshold == computedThreshold
      multiplier == computedStepMultiplier
      t1 == CallStepper(t.stepper, t, IF t.count < threshold THEN 1 ELSE multiplier)
  IN [t1 EXCEPT !.count = @ + 1]

\* onKeydown with PageUp / PageDown taking a single step
onKeydown_pageSingleStep(t, keyCode, modifier) ==
  IF t.disabled \/ t.readonly \/ modifier THEN t
  ELSE IF keyCode \in HandledKeys THEN
    IF t.keyIsDown THEN t
    ELSE LET t1 == resetTimers(t) IN
      IF keyCode \in {UP, DOWN}
      THEN handleStepRepeat([t1 EXCEPT !.keyIsDown = TRUE],
                            IF keyCode = UP THEN "stepUp" ELSE "stepDown")
      ELSE IF keyCode = PAGEUP THEN stepUp(t1, 1)
      ELSE IF keyCode = PAGEDOWN THEN stepDown(t1, 1)
      ELSE IF keyCode = HOME THEN [t1 EXCEPT !.localValue = Num(computedMin)]
      ELSE [t1 EXCEPT !.localValue = Num(computedMax)]
  ELSE t

\* onKeydown without the return at line 317
onKeydown_noGuard(t, keyCode, modifier) ==
  IF t.disabled \/ t.readonly \/ modifier THEN t
  ELSE IF keyCode \in HandledKeys THEN
    LET t1 == resetTimers(t) IN
      IF keyCode \in {UP, DOWN}
      THEN handleStepRepeat([t1 EXCEPT !.keyIsDown = TRUE],
                            IF keyCode = UP THEN "stepUp" ELSE "stepDown")
      ELSE IF keyCode = PAGEUP THEN stepUp(t1, computedStepMultiplier)
      ELSE IF keyCode = PAGEDOWN THEN stepDown(t1, computedStepMultiplier)
      ELSE IF keyCode = HOME THEN [t1 EXCEPT !.localValue = Num(computedMin)]
      ELSE [t1 EXCEPT !.localValue = Num(computedMax)]
  ELSE t

onKeydown(t, keyCode, modifier) ==
  IF t.disabled \/ t.readonly \/ modifier THEN t
  ELSE IF keyCode \in HandledKeys THEN
    IF t.keyIsDown THEN t
    ELSE LET t1 == resetTimers(t) IN
      IF keyCode \in {UP, DOWN}
      THEN handleStepRepeat([t1 EXCEPT !.keyIsDown = TRUE],
                            IF keyCode = UP THEN "stepUp" ELSE "stepDown")
      ELSE IF keyCode = PAGEUP THEN stepUp(t1, computedStepMultiplier)
      ELSE IF keyCode = PAGEDOWN THEN stepDown(t1, computedStepMultiplier)
      ELSE IF keyCode = HOME THEN [t1 EXCEPT !.localValue = Num(computedMin)]
      ELSE [t1 EXCEPT !.localValue = Num(computedMax)]
  ELSE t

\* onKeyup without its emitChange()
onKeyup_noEmit(t, keyCode, modifier) ==
  IF t.disabled \/ t.readonly \/ modifier THEN t
  ELSE IF keyCode \in HandledKeys
  THEN [resetTimers(t) EXCEPT !.keyIsDown = FALSE]
  ELSE t

onKeyup(t, keyCode, modifier) ==
  IF t.disabled \/ t.readonly \/ modifier THEN t
  ELSE IF keyCode \in HandledKeys
  THEN emitChange([resetTimers(t) EXCEPT !.keyIsDown = FALSE])
  ELSE t

onMouseup(t) == emitChange(setMouseup(resetTimers(t), FALSE))

\* watch.disabled leaving the timers alone
watch_disabled_noReset(t, value) ==
  IF value THEN [setMouseup(t, FALSE) EXCEPT !.keyIsDown = FALSE] ELSE t

\* watch.disabled and watch.readonly (lines 218-231)
watch_disabled(t, value) ==
  IF value THEN [setMouseup(resetTimers(t), FALSE) EXCEPT !.keyIsDown = FALSE] ELSE t

watch_readonly(t, value) ==
  IF value THEN [setMouseup(resetTimers(t), FALSE) EXCEPT !.keyIsDown = FALSE] ELSE t

\* watch.localValue (lines 215-217): runs once the handler is done, when the
\* value is another one than before
watch_localValue(t) ==
  IF t.localValue # localValue THEN [t EXCEPT !.emitted = Append(@, "input")] ELSE t

\* the handler of mousedown / touchstart on a button (lines 418-422), with
\* isDisabled and isReadonly as render computes them (lines 405-406)
makeButton_handler(t, fn) ==
  LET isDisabled == t.disabled
      isReadonly == t.readonly /\ ~isDisabled
  IN IF ~isDisabled /\ ~isReadonly THEN handleStepRepeat(t, fn) ELSE t

\* focus and blur of the spin button (lines 286-292; render binds both events
\* to this one handler, lines 536-537)
onFocusBlur(t, type) ==
  IF ~t.disabled THEN [t EXCEPT !.hasFocus = (type = "focus")]
  ELSE [t EXCEPT !.hasFocus = FALSE]

\* the names under `methods:` (lines 247-398); the id mixin (line 51) supplies
\* safeId and no timer method
Methods ==
  {"focus", "blur", "emitChange", "stepValue", "onFocusBlur", "stepUp", "stepDown",
   "onKeydown", "onKeyup", "handleStepRepeat", "onMouseup", "setMouseup", "resetTimers"}

\* calling this[name](): a name that is no method is undefined, and calling
\* undefined raises a TypeError, which ends the hook that made the call
Raise(t) == [t EXCEPT !.error = "TypeError"]

\* the hook beforeDestroy (lines 239-242)
beforeDestroy(t) ==
  IF "resetTimers" \in Methods THEN setMouseup(resetTimers(t), FALSE) ELSE Raise(t)

\* the hook deactivated (lines 243-246), which calls this.restTimers()
deactivated(t) ==
  IF "restTimers" \in Methods THEN setMouseup(resetTimers(t), FALSE) ELSE Raise(t)

\* --- The keyboard gesture being observed: "open" from an unmodified Up/Down
\* --- key-down on an enabled, non-read-only control, while only timer firings
\* --- and repeated key-downs of that key follow; "closed" by its key-up.
\* --- changes counts the 'change' notifications since the key-down, ticks the
\* --- interval ticks.
NoGesture == [phase |-> "none", changes |-> 0, ticks |-> 0]

NChange(em) == Cardinality({i \in DOMAIN em : em[i] = "change"})

Observe(kind, em) ==
  IF kind = "start"
  THEN [phase |-> "open", changes |-> NChange(em), ticks |-> 0]
  ELSE IF gesture.phase = "open" /\ kind \in {"repeat", "delay", "tick"}
  THEN [phase |-> "open", changes |-> gesture.changes + NChange(em),
        ticks |-> gesture.ticks + (IF kind = "tick" THEN 1 ELSE 0)]
  ELSE IF gesture.phase = "open" /\ kind = "end"
  THEN [phase |-> "closed", changes |-> gesture.changes + NChange(em),
        ticks |-> gesture.ticks]
  ELSE NoGesture

\* --- The state a handler leaves behind, the watcher of localValue included
Handled(t, ev) ==
  LET t1 == watch_localValue(t) IN
  /\ disabled' = t1.disabled
  /\ readonly' = t1.readonly
  /\ localValue' = t1.localValue
  /\ autoDelayTimer' = t1.autoDelayTimer
  /\ autoRepeatTimer' = t1.autoRepeatTimer
  /\ keyIsDown' = t1.keyIsDown
  /\ mouseup' = t1.mouseup
  /\ stepper' = t1.stepper
  /\ count' = t1.count
  /\ emitted' = t1.emitted
  /\ hasFocus' = t1.hasFocus
  /\ orphans' = t1.orphans
  /\ error' = t1.error
  /\ last' = ev
  /\ UNCHANGED props

\* the phase of the repeat cycle
TimerPhase ==
  IF autoRepeatTimer = "pending" THEN "repeating"
  ELSE IF autoDelayTimer = "pending" THEN "delaying" ELSE "idle"

\* an event as `last` records it: its kind, its argument (the key, the place of
\* the pointer, the new prop value), whether a modifier key was held, the
\* multiplier of a stepUp / stepDown call, and the phase and the value it found
Event(ev, arg, modifier, m) ==
  [ev |-> ev, arg |-> arg, mod |-> modifier, m |-> m,
   phase |-> TimerPhase, was |-> localValue]

\* --- Actions: one per event the component handles

\* keydown of key k; a keydown of the key already held is the OS's auto-repeat
KeyDown(k, modifier) ==
  /\ heldKey \in {"none", k}
  /\ heldKey' = k
  /\ UNCHANGED <<pointer, secondKey, lifecycle>>
  /\ LET t == onKeydown(this, k, modifier) IN
     /\ Handled(t, Event("keydown", k, modifier, 0))
     /\ gesture' = Observe(IF /\ heldKey = "none" /\ k \in {UP, DOWN} /\ ~modifier
                              /\ ~disabled /\ ~readonly
                           THEN "start"
                           ELSE IF heldKey = k /\ ~modifier THEN "repeat" ELSE "other",
                           t.emitted)

\* keyup of the key held
KeyUp(modifier) ==
  /\ heldKey # "none"
  /\ heldKey' = "none"
  /\ UNCHANGED <<pointer, secondKey, lifecycle>>
  /\ LET t == onKeyup(this, heldKey, modifier) IN
     /\ Handled(t, Event("keyup", heldKey, modifier, 0))
     /\ gesture' = Observe(IF modifier THEN "other" ELSE "end", t.emitted)

\* mousedown / touchstart on the increment button ("inc"), the decrement
\* button ("dec") or anywhere else on the page ("page")
PointerDown(where) ==
  /\ pointer = "up"
  /\ pointer' = where
  /\ UNCHANGED <<heldKey, secondKey, lifecycle>>
  /\ LET t == IF where = "inc" THEN makeButton_handler(this, "stepUp")
              ELSE IF where = "dec" THEN makeButton_handler(this, "stepDown")
              ELSE this
     IN /\ Handled(t, Event("pointerdown", where, FALSE, 0))
        /\ gesture' = Observe("other", t.emitted)

\* mouseup / touchend, which reaches document.body wherever the pointer is
PointerUp ==
  /\ pointer # "up"
  /\ pointer' = "up"
  /\ UNCHANGED <<heldKey, secondKey, lifecycle>>
  /\ LET t == IF mouseup THEN onMouseup(this) ELSE this
     IN /\ Handled(t, Event("pointerup", pointer, FALSE, 0))
        /\ gesture' = Observe("other", t.emitted)

\* the delay timeout fires
DelayFire ==
  /\ autoDelayTimer = "pending"
  /\ UNCHANGED <<heldKey, pointer, secondKey, lifecycle>>
  /\ LET t == delayCallback(this)
     IN /\ Handled(t, Event("delay", "none", FALSE, 0))
        /\ gesture' = Observe("delay", t.emitted)

\* the interval fires
Tick ==
  /\ autoRepeatTimer = "pending"
  /\ count < MaxCount
  /\ UNCHANGED <<heldKey, pointer, secondKey, lifecycle>>
  /\ LET t == repeatCallback(this)
     IN /\ Handled(t, Event("tick", "none", FALSE, 0))
        /\ gesture' = Observe("tick", t.emitted)

\* the parent changes the prop `disabled` / `readonly`
SetDisabled(value) ==
  /\ disabled # value
  /\ UNCHANGED <<heldKey, pointer, secondKey, lifecycle>>
  /\ LET t == watch_disabled([this EXCEPT !.disabled = value], value)
     IN /\ Handled(t, Event("disabled", IF value THEN "true" ELSE "false", FALSE, 0))
        /\ gesture' = Observe("other", t.emitted)

SetReadonly(value) ==
  /\ readonly # value
  /\ UNCHANGED <<heldKey, pointer, secondKey, lifecycle>>
  /\ LET t == watch_readonly([this EXCEPT !.readonly = value], value)
     IN /\ Handled(t, Event("readonly", IF value THEN "true" ELSE "false", FALSE, 0))
        /\ gesture' = Observe("other", t.emitted)

\* the public methods stepUp(multiplier) and stepDown(multiplier)
StepUpCall(multiplier) ==
  /\ UNCHANGED <<heldKey, pointer, secondKey, lifecycle>>
  /\ LET t == stepUp(this, multiplier)
     IN /\ Handled(t, Event("stepUp", "none", FALSE, multiplier))
        /\ gesture' = Observe("other", t.emitted)

StepDownCall(multiplier) ==
  /\ UNCHANGED <<heldKey, pointer, secondKey, lifecycle>>
  /\ LET t == stepDown(this, multiplier)
     IN /\ Handled(t, Event("stepDown", "none", FALSE, multiplier))
        /\ gesture' = Observe("other", t.emitted)

\* --- Configurations and initial values
Props(min, max, step, wrap, threshold, multiplier) ==
  [min |-> min, max |-> max, step |-> step, wrap |-> wrap,
   repeatThreshold |-> threshold, repeatStepMultiplier |-> multiplier]

\* the interaction model: a range of whole steps (the step given, or not
\* numeric and defaulted), and one of half steps from 0.25
PropsSet ==
  {Props(Num(0), Num(8 * Scale), Num(Scale), FALSE, Num(2), Num(2)),
   Props(Num(0), Num(8 * Scale), NaN, TRUE, Num(1), Num(2)),
   Props(Num(25), Num(3 * Scale), Num(50), FALSE, Num(1), Num(2)),
   Props(Num(25), Num(3 * Scale), Num(50), TRUE, Num(1), Num(2))}

InitValues == {Null, Num(150), Num(10 * Scale)}

Created ==
  /\ autoDelayTimer = "none"
  /\ autoRepeatTimer = "none"
  /\ keyIsDown = FALSE
  /\ mouseup = FALSE
  /\ stepper = "none"
  /\ count = 0
  /\ emitted = << >>
  /\ heldKey = "none"
  /\ pointer = "up"
  /\ last = Event("created", "none", FALSE, 0)
  /\ gesture = NoGesture
  /\ hasFocus = FALSE
  /\ orphans = 0
  /\ error = "none"
  /\ lifecycle = "active"
  /\ secondKey = "none"

Init ==
  /\ props \in PropsSet
  /\ localValue \in InitValues
  /\ disabled = FALSE
  /\ readonly = FALSE
  /\ Created

Keys == HandledKeys \cup {OTHERKEY}

Next ==
  \/ \E k \in Keys, modifier \in BOOLEAN : KeyDown(k, modifier)
  \/ \E modifier \in BOOLEAN : KeyUp(modifier)
  \/ \E where \in {"inc", "dec", "page"} : PointerDown(where)
  \/ PointerUp
  \/ DelayFire
  \/ Tick
  \/ \E value \in BOOLEAN : SetDisabled(value)
  \/ \E value \in BOOLEAN : SetReadonly(value)
  \/ \E m \in 1..MaxMult : StepUpCall(m)
  \/ \E m \in 1..MaxMult : StepDownCall(m)

Spec == Init /\ [][Next]_vars

\* --- The stepping model: the public methods and the keys that step without
\* --- timers, over a wider set of configurations (a step of 0, a step not
\* --- numeric, min and max off the grid of the step, min above max)
StepPropsSet ==
  {Props(min, max, step, wrap, Num(1), Num(2)) :
     min \in {Num(0), Num(25)}, max \in {Num(3 * Scale), Num(275)},
     step \in {Num(0), Num(50), Num(Scale), Num(2 * Scale), NaN},
     wrap \in BOOLEAN}
  \cup {Props(NaN, NaN, Num(25 * Scale), wrap, Num(1), NaN) : wrap \in BOOLEAN}
  \cup {Props(Num(2 * Scale), Num(Scale), Num(Scale), wrap, Num(1), Num(2)) : wrap \in BOOLEAN}

StepInitValues == {Null, Num(-50), Num(25), Num(Scale), Num(150), Num(4 * Scale)}

InitStep ==
  /\ props \in StepPropsSet
  /\ localValue \in StepInitValues
  /\ disabled \in BOOLEAN
  /\ readonly = FALSE
  /\ Created

NextStep ==
  \/ \E m \in 1..MaxMult : StepUpCall(m)
  \/ \E m \in 1..MaxMult : StepDownCall(m)
  \/ \E k \in {HOME, END, PAGEUP, PAGEDOWN} : KeyDown(k, FALSE)
  \/ KeyUp(FALSE)
  \/ \E value \in BOOLEAN : SetDisabled(value)

SpecStep == InitStep /\ [][NextStep]_vars

\* --- The keyboard with two keys held at once, and repeat props of every kind

\* keydown of a second key k while heldKey is still held
KeyDown2(k, modifier) ==
  /\ heldKey \notin {"none", k}
  /\ secondKey \in {"none", k}
  /\ secondKey' = k
  /\ UNCHANGED <<heldKey, pointer, lifecycle>>
  /\ LET t == onKeydown(this, k, modifier) IN
     /\ Handled(t, Event("keydown", k, modifier, 0))
     /\ gesture' = Observe("other", t.emitted)

\* keyup of the second key
KeyUp2(modifier) ==
  /\ secondKey # "none"
  /\ secondKey' = "none"
  /\ UNCHANGED <<heldKey, pointer, lifecycle>>
  /\ LET t == onKeyup(this, secondKey, modifier) IN
     /\ Handled(t, Event("keyup", secondKey, modifier, 0))
     /\ gesture' = Observe("other", t.emitted)

\* repeatThreshold and repeatStepMultiplier as toInteger leaves them: a
\* positive, a zero or a negative integer, or NaN for a non-numeric value
KeysPropsSet ==
  { Props(Num(0), Num(8 * Scale), Num(Scale), FALSE, tm[1], tm[2]) :
      tm \in { <<Num(1), Num(2)>>, <<Num(0), Num(0)>>, <<Num(-1), Num(-2)>>,
               <<NaN, NaN>> } }

KeysInitValues == {Null, Num(4 * Scale)}

\* the keys pressed as a second key
SecondKeys == {DOWN, HOME, PAGEUP}

InitKeys ==
  /\ props \in KeysPropsSet
  /\ disabled = FALSE
  /\ readonly = FALSE
  /\ localValue = Num(4 * Scale)
  /\ Created

NextKeys ==
  \/ \E k \in HandledKeys : KeyDown(k, FALSE)
  \/ \E modifier \in BOOLEAN : KeyUp(modifier)
  \/ \E k \in SecondKeys : KeyDown2(k, FALSE)
  \/ KeyUp2(FALSE)
  \/ \E where \in {"inc", "dec"} : PointerDown(where)
  \/ PointerUp
  \/ DelayFire
  \/ Tick

SpecKeys == InitKeys /\ [][NextKeys]_vars

\* --- The life of the component: focus, direct calls of resetTimers,
\* --- deactivation under keep-alive, destruction

FocusEvent(type) ==
  /\ lifecycle = "active"
  /\ hasFocus = (type = "blur")
  /\ UNCHANGED <<heldKey, pointer, secondKey, lifecycle>>
  /\ LET t == onFocusBlur(this, type)
     IN /\ Handled(t, Event(type, "none", FALSE, 0))
        /\ gesture' = Observe("other", t.emitted)

ResetTimersCall ==
  /\ lifecycle = "active"
  /\ UNCHANGED <<heldKey, pointer, secondKey, lifecycle>>
  /\ LET t == resetTimers(this)
     IN /\ Handled(t, Event("resetTimers", "none", FALSE, 0))
        /\ gesture' = Observe("other", t.emitted)

\* keep-alive detaches the component and runs deactivated
Deactivate ==
  /\ lifecycle = "active"
  /\ lifecycle' = "deactivated"
  /\ UNCHANGED <<heldKey, pointer, secondKey>>
  /\ LET t == deactivated(this)
     IN /\ Handled(t, Event("deactivated", "none", FALSE, 0))
        /\ gesture' = Observe("other", t.emitted)

\* keep-alive attaches it again; the component has no activated hook
Activate ==
  /\ lifecycle = "deactivated"
  /\ lifecycle' = "active"
  /\ UNCHANGED <<heldKey, pointer, secondKey>>
  /\ Handled(this, Event("activated", "none", FALSE, 0))
  /\ gesture' = Observe("other", << >>)

\* $destroy() runs beforeDestroy; the instance handles nothing afterwards
Destroy ==
  /\ lifecycle # "destroyed"
  /\ lifecycle' = "destroyed"
  /\ UNCHANGED <<heldKey, pointer, secondKey>>
  /\ LET t == beforeDestroy(this)
     IN /\ Handled(t, Event("beforeDestroy", "none", FALSE, 0))
        /\ gesture' = Observe("other", t.emitted)

LifePropsSet ==
  { Props(Num(0), Num(8 * Scale), Num(Scale), wrap, Num(1), Num(2)) : wrap \in BOOLEAN }

InitLife ==
  /\ props \in LifePropsSet
  /\ disabled = FALSE
  /\ readonly = FALSE
  /\ localValue \in KeysInitValues
  /\ Created

\* key and pointer events reach the control only while it is attached; timers
\* and the listener on document.body outlive that
NextLife ==
  \/ \E type \in {"focus", "blur"} : FocusEvent(type)
  \/ ResetTimersCall
  \/ Deactivate
  \/ Activate
  \/ Destroy
  \/ lifecycle = "active" /\ \E k \in {UP, DOWN, HOME}, modifier \in BOOLEAN : KeyDown(k, modifier)
  \/ lifecycle = "active" /\ \E modifier \in BOOLEAN : KeyUp(modifier)
  \/ lifecycle = "active" /\ \E where \in {"inc", "dec"} : PointerDown(where)
  \/ PointerUp
  \/ DelayFire
  \/ Tick
  \/ lifecycle = "active" /\ \E value \in BOOLEAN : SetDisabled(value)

SpecLife == InitLife /\ [][NextLife]_vars

\* --- Properties

\* empty, or a number within [min, max]
InRange(v) == isNull(v) \/ (v.k = "num" /\ computedMin <= v.n /\ v.n <= computedMax)

\* 10^-precision in units of 1/Scale
PrecisionUnit == Scale \div computedMultiplier

IsStepCall == last.ev \in {"stepUp", "stepDown"}

\* C1: with min <= max and step > 0, a value that is empty or within
\* [min, max] is empty or within [min, max] after every event (stepUp and
\* stepDown calls, key-downs, pointer-downs, timer firings), wrap or not.
C1_RangeInvariant ==
  [][(computedMin <= computedMax /\ computedStep > 0 /\ InRange(localValue))
       => InRange(localValue')]_vars

\* an interval tick found the value at max, wrap off, and left it there
C1_Witness ==
  /\ last.ev = "tick"
  /\ ~props.wrap
  /\ computedMin < computedMax
  /\ last.was = Num(computedMax)
  /\ localValue = Num(computedMax)

\* C2: an unmodified Up/Down key-down on an enabled, non-read-only control,
\* followed only by timer firings and repeated key-downs of that key and then
\* by its key-up, has emitted exactly one 'change' once the key-up is handled.
C2_ExactlyOneChange == gesture.phase = "closed" => gesture.changes = 1

\* such a gesture closed after interval ticks
C2_Witness == gesture.phase = "closed" /\ gesture.ticks >= 2

\* C3: every 'change' is emitted by a key-up that ends the press of a handled
\* key or by a pointer release that ends a press on the increment or the
\* decrement button; a pointer release with no press on the control in
\* progress emits none.
C3_ChangeOncePerGesture ==
  [][NChange(emitted') > 0 =>
       \/ last'.ev = "keyup" /\ heldKey \in HandledKeys
       \/ last'.ev = "pointerup" /\ pointer \in {"inc", "dec"}]_vars

\* C4: from the step that disables the control, and as long as it stays
\* disabled, no timer is pending (none can fire and change the value), a timer
\* firing changes no value, and no event emits 'change'.
C4_DisableHaltsRepeat ==
  [][disabled' =>
       /\ autoDelayTimer' = "none"
       /\ autoRepeatTimer' = "none"
       /\ NChange(emitted') = 0
       /\ (last'.ev \in {"delay", "tick"} => localValue' = localValue)]_vars

\* the control was disabled while the interval was running
C4_Witness == disabled /\ last.ev = "disabled" /\ last.phase = "repeating"

\* C5: on an empty value stepUp(m) stores min, and stepDown(m) stores max with
\* wrap and min without, for every multiplier m.
C5_EmptyValueSeeding ==
  (IsStepCall /\ isNull(last.was)) =>
    localValue = Num(IF last.ev = "stepDown" /\ props.wrap
                     THEN computedMax ELSE computedMin)

\* stepDown(2) seeded an empty value with max, which is not min
C5_Witness ==
  /\ last.ev = "stepDown"
  /\ last.m = 2
  /\ isNull(last.was)
  /\ props.wrap
  /\ computedMax # computedMin
  /\ localValue = Num(computedMax)

\* a single stepUp / stepDown call on an enabled control with wrap on,
\* min <= max and step > 0, from a number within [min, max]
SingleWrapStep ==
  /\ IsStepCall
  /\ last.m = 1
  /\ ~disabled
  /\ props.wrap
  /\ computedMin <= computedMax
  /\ computedStep > 0
  /\ last.was.k = "num"
  /\ InRange(last.was)

\* the step went beyond the bound and the value wrapped around
WrappedAround ==
  IF last.ev = "stepUp"
  THEN steppedValue(last.was.n, computedStep) > computedMax /\ localValue = Num(computedMin)
  ELSE steppedValue(last.was.n, -computedStep) < computedMin /\ localValue = Num(computedMax)

\* C6 as claimed: a single step wraps around only from exactly max (up) or
\* exactly min (down).
C6_WrapOnlyAtBoundary ==
  (SingleWrapStep /\ WrappedAround) =>
    last.was.n = (IF last.ev = "stepUp" THEN computedMax ELSE computedMin)

\* min is a multiple of 10^-precision, and max and the value found are on the
\* grid of the step anchored at min
OnStepGrid ==
  /\ computedMin % PrecisionUnit = 0
  /\ (computedMax - computedMin) % computedStep = 0
  /\ (last.was.n - computedMin) % computedStep = 0

\* C6 amended: with min a multiple of 10^-precision and max and the value on
\* the grid of the step anchored at min, a single stepUp wraps to min from
\* exactly max and otherwise adds one step; a single stepDown wraps to max
\* from exactly min and otherwise subtracts one step.
C6_WrapOnlyAtBoundaryOnGrid ==
  (SingleWrapStep /\ OnStepGrid) =>
    IF last.ev = "stepUp"
    THEN localValue = (IF last.was.n = computedMax THEN Num(computedMin)
                       ELSE Num(last.was.n + computedStep))
    ELSE localValue = (IF last.was.n = computedMin THEN Num(computedMax)
                       ELSE Num(last.was.n - computedStep))

\* a stepUp on the grid wrapped from max to min
C6_Witness ==
  /\ SingleWrapStep
  /\ OnStepGrid
  /\ last.ev = "stepUp"
  /\ computedMin < computedMax
  /\ last.was = Num(computedMax)
  /\ localValue = Num(computedMin)

\* the magnitude of the interval tick handled last (count is already counted up)
TickMagnitude == IF count - 1 < computedThreshold THEN 1 ELSE computedStepMultiplier

\* the value one tick of that magnitude away from the value found
TickTarget ==
  last.was.n + (IF stepper = "stepUp" THEN 1 ELSE -1) * TickMagnitude * computedStep

\* an interval tick that found a number and whose target is within [min, max]
TickWithinBounds ==
  /\ last.ev = "tick"
  /\ last.was.k = "num"
  /\ computedStep > 0
  /\ computedMin <= TickTarget
  /\ TickTarget <= computedMax

\* C7 as claimed: while no bound is reached, ticks 1..T change the value by
\* one step and tick T+1 and the later ones by M steps, from whatever value
\* (stated for the configurations whose min is a multiple of 10^-precision).
C7_Acceleration ==
  (TickWithinBounds /\ computedMin % PrecisionUnit = 0) => localValue = Num(TickTarget)

\* the value found is a multiple of 10^-precision on the grid anchored at min
\* whose spacing is the tick's magnitude times the step
OnTickGrid ==
  /\ last.was.n % PrecisionUnit = 0
  /\ (last.was.n - computedMin) % Abs(TickMagnitude * computedStep) = 0

\* C7 amended: ticks 1..T step with magnitude 1 and tick T+1 and the later
\* ones with magnitude M, and a tick changes the value by exactly its
\* magnitude times the step when the value it finds is a multiple of
\* 10^-precision on the grid of that spacing anchored at min (and no bound is
\* reached); from a value off that grid it snaps to the grid first.
C7_AccelerationOnGrid ==
  (TickWithinBounds /\ OnTickGrid) => localValue = Num(TickTarget)

\* tick T+1 moved the value by M steps
C7_Witness ==
  /\ TickWithinBounds
  /\ OnTickGrid
  /\ count = computedThreshold + 1
  /\ computedStepMultiplier > 1
  /\ localValue = Num(last.was.n + computedStepMultiplier * computedStep)

\* C8: after a stepUp, a stepDown, Home or End on an enabled control with a
\* step above 0 the stored number is a multiple of 10^-precision, whatever min
\* and max are.
C8_PrecisionInvariant ==
  (/\ IsStepCall \/ (last.ev = "keydown" /\ last.arg \in {HOME, END} /\ ~last.mod)
   /\ ~disabled
   /\ ~readonly
   /\ computedStep > 0
   /\ localValue.k = "num")
    => localValue.n % PrecisionUnit = 0

\* C9: stepUp(m) and stepDown(m) on a disabled control leave the value as it
\* was, the empty value too, and emit nothing.
C9_DisabledStepIsNoop ==
  (IsStepCall /\ disabled) => (localValue = last.was /\ emitted = << >>)

\* C10: stepUp and stepDown from a number store a number, never NaN, for
\* every min, max and step that are numbers, a step of 0 too.
C10_StepStoresFinite ==
  (IsStepCall /\ last.was.k = "num") => localValue.k = "num"

\* --- C11

\* an interval tick of a held Up did not lower the value, one of a held Down
\* did not raise it (wrap off, where a step never passes a bound)
HeldDirectionKept ==
  (last.was.k = "num" /\ localValue.k = "num" /\ ~props.wrap)
    => /\ stepper = "stepUp" => localValue.n >= last.was.n
       /\ stepper = "stepDown" => localValue.n <= last.was.n

\* C11: whatever repeatThreshold and repeatStepMultiplier are supplied, at every
\* interval tick the effective threshold and the effective step multiplier are
\* integers >= 1, and the tick moves the value in the direction that is held
C11_RepeatCoercion ==
  last.ev = "tick"
    => /\ computedThreshold >= 1
       /\ computedStepMultiplier >= 1
       /\ HeldDirectionKept

\* --- C12

\* C12: a call of resetTimers, in whatever phase, leaves no delay timer and no
\* interval timer pending and touches neither the value, the key-is-down flag
\* nor the listener, and emits nothing; a second call right after it changes
\* nothing at all
C12_ResetTimersIdempotent ==
  [][last'.ev = "resetTimers"
       => /\ autoDelayTimer' = "none"
          /\ autoRepeatTimer' = "none"
          /\ UNCHANGED <<localValue, keyIsDown, mouseup>>
          /\ emitted' = << >>
          /\ error' = "none"
          /\ last.ev = "resetTimers"
               => UNCHANGED <<autoDelayTimer, autoRepeatTimer, stepper, count,
                              localValue, keyIsDown, mouseup, emitted, orphans>>]_vars

\* resetTimers was called while the interval was running
C12_Witness ==
  /\ last.ev = "resetTimers"
  /\ last.phase = "repeating"
  /\ keyIsDown
  /\ autoRepeatTimer = "none"

\* --- C13

\* the step taken starts a gesture: a pointer-down on a button, or an Up/Down
\* key-down that is not one of a key press already flagged
StartsGesture ==
  \/ last'.ev = "pointerdown" /\ last'.arg \in {"inc", "dec"}
  \/ last'.ev = "keydown" /\ last'.arg \in {UP, DOWN} /\ ~last'.mod /\ ~keyIsDown

StartedStepper == IF last'.arg \in {"inc", UP} THEN "stepUp" ELSE "stepDown"

\* the step taken is the release of a key or of the pointer
IsRelease ==
  \/ last'.ev = "pointerup"
  \/ last'.ev = "keyup" /\ last'.arg \in {UP, DOWN}

\* C13: the start of a gesture on an enabled, non-read-only control performs
\* one step of magnitude 1 and arms the delay timer only; a release that
\* arrives while the delay is pending ends the gesture with that one step; an
\* interval tick never finds a delay timer pending
C13_StartOrdering ==
  [][/\ (StartsGesture /\ ~disabled /\ ~readonly)
          => /\ localValue' = CallStepper(StartedStepper, this, 1).localValue
             /\ autoDelayTimer' = "pending"
             /\ autoRepeatTimer' = "none"
     /\ (IsRelease /\ ~disabled /\ ~readonly /\ last'.phase = "delaying")
          => /\ autoDelayTimer' = "none"
             /\ autoRepeatTimer' = "none"
             /\ localValue' = localValue
     /\ last'.ev = "tick" => autoDelayTimer = "none"]_vars

\* --- C14

\* the timers pending: those whose handle the component holds, and the orphans
PendingTimers ==
  orphans + (IF autoDelayTimer = "pending" THEN 1 ELSE 0)
          + (IF autoRepeatTimer = "pending" THEN 1 ELSE 0)

\* C14: in every reachable state every pending timer is one whose handle the
\* component holds, so at most one delay timer and at most one interval timer
\* are pending
C14_TimerInvariant ==
  /\ orphans = 0
  /\ PendingTimers <= 1 + 1

\* a pointer-down started a new gesture while the interval of a keyboard
\* gesture was running
C14_Witness ==
  /\ last.ev = "pointerdown"
  /\ last.phase = "repeating"
  /\ keyIsDown
  /\ autoDelayTimer = "pending"
  /\ autoRepeatTimer = "none"
  /\ orphans = 0

\* --- C15

\* C15: after a blur event on the control no delay or interval timer is
\* pending, the key-is-down flag is false and the listener on document.body
\* is not registered
C15_BlurResets ==
  last.ev = "blur"
    => /\ autoDelayTimer = "none"
       /\ autoRepeatTimer = "none"
       /\ ~keyIsDown
       /\ ~mouseup

\* --- C16

\* C16: after beforeDestroy or deactivated has run, in whatever phase, no
\* delay or interval timer is pending, the listener on document.body is not
\* registered, and the hook has raised no error
C16_Teardown ==
  last.ev \in {"beforeDestroy", "deactivated"}
    => /\ autoDelayTimer = "none"
       /\ autoRepeatTimer = "none"
       /\ ~mouseup
       /\ error = "none"

\* --- C17

\* C17: while the key-is-down flag is set, an Up or Down key-down performs no
\* step, cancels no timer, arms no timer and emits nothing
C17_KeyRepeatSuppression ==
  [][(keyIsDown /\ last'.ev = "keydown" /\ last'.arg \in {UP, DOWN})
       => /\ UNCHANGED <<localValue, autoDelayTimer, autoRepeatTimer, stepper,
                         count, keyIsDown, mouseup, orphans>>
          /\ emitted' = << >>]_vars

\* the OS repeated the key-down of the held Up while the interval was running,
\* which runs on
C17_Witness ==
  /\ last.ev = "keydown"
  /\ last.arg = UP
  /\ heldKey = UP
  /\ last.phase = "repeating"
  /\ keyIsDown
  /\ autoRepeatTimer = "pending"
  /\ count >= 1

\* --- C18

\* what Home, End, PageUp and PageDown do when they act: Home stores min, End
\* stores max, PageUp and PageDown are stepUp and stepDown with the effective
\* step multiplier, and no timer is pending that was not pending before
AbsoluteAndPageKeysAct ==
  /\ last'.arg = HOME => localValue' = Num(computedMin)
  /\ last'.arg = END => localValue' = Num(computedMax)
  /\ last'.arg = PAGEUP
       => localValue' = stepUp(this, computedStepMultiplier).localValue
  /\ last'.arg = PAGEDOWN
       => localValue' = stepDown(this, computedStepMultiplier).localValue
  /\ autoDelayTimer' = "pending" => autoDelayTimer = "pending"
  /\ autoRepeatTimer' = "pending" => autoRepeatTimer = "pending"

\* an unmodified key-down of Home, End, PageUp or PageDown on an enabled,
\* non-read-only control
AbsoluteOrPageKeyDown ==
  /\ last'.ev = "keydown"
  /\ last'.arg \in {HOME, END, PAGEUP, PAGEDOWN}
  /\ ~last'.mod
  /\ ~disabled /\ ~readonly

C19_ListenerOnlyDuringPointerGesture ==
  /\ (last.ev = "pointerdown" /\ last.arg \in {"inc", "dec"}
        /\ ~disabled /\ ~readonly) => mouseup
  /\ last.ev = "pointerup" => ~mouseup
  /\ pointer \notin {"inc", "dec"} => ~mouseup

\* --- C20

\* C20: once the key-up of a held Up or Down key has been delivered to an
\* enabled, non-read-only control, whatever modifier is held, no delay or
\* interval timer is pending and the key-is-down flag is false
C20_KeyUpEndsCycle ==
  (last.ev = "keyup" /\ last.arg \in {UP, DOWN} /\ ~disabled /\ ~readonly)
    => /\ autoDelayTimer = "none"
       /\ autoRepeatTimer = "none"
       /\ ~keyIsDown

====
